---- MODULE Spec2Model ----
(***************************************************************************)
(* Model of cmd/mirrorjekyllissues: main's page loop over the open issues  *)
(* of a repository, writeIssues' fan-out of one goroutine per issue, the   *)
(* per-issue comment page loop and writeComments' fan-out of one goroutine *)
(* per comment, the errgroup joins, and debugLogger's Fatalf (os.Exit).    *)
(*                                                                         *)
(* The remote source and the file system are the environment: every call   *)
(* into them either succeeds or fails, at most MaxFaults times in a run.   *)
(* The time prefix of log messages is left out of the messages.            *)
(***************************************************************************)
EXTENDS Integers, Sequences, FiniteSets, TLC

\* ---------------------------------------------------------------- bounds
NumIssues == 3      \* at most this many open issues at the source
PageCap == 2        \* the source serves at most this many items per page
MaxComments == 3    \* at most this many comments per issue
MaxFaults == 2      \* at most this many failing calls in a run
NumLoggers == 2     \* goroutines calling the logger at the same time
MaxLogCalls == 2    \* at most this many log calls per goroutine

\* ListOptions.PerPage of both list calls
PerPage == 100

Nil == <<>>
Running == 0 - 1

Min(a, b) == IF a < b THEN a ELSE b
Max(a, b) == IF a > b THEN a ELSE b

\* ---------------------------------------------------------------- remote source
\* Items per served page: the requested page size, capped by the source.
PageLen(perPage) == Min(perPage, PageCap)

\* Number of pages of a list of total items (an empty list has one empty page).
NumPages(total, perPage) ==
    IF total = 0 THEN 1 ELSE (total + PageLen(perPage) - 1) \div PageLen(perPage)

\* The source serves page 1 for a request of page 0.
Served(page) == Max(page, 1)

\* Positions (1-based, in creation order) of the items on a requested page.
PageItems(total, page, perPage) ==
    LET p == Served(page)
        lo == (p - 1) * PageLen(perPage) + 1
        hi == Min(p * PageLen(perPage), total)
    IN  [k \in 1..Max(hi - lo + 1, 0) |-> lo + k - 1]

\* resp.NextPage: 0 on the last page.
NextPageOf(total, page, perPage) ==
    IF Served(page) < NumPages(total, perPage) THEN Served(page) + 1 ELSE 0

CommentID(num, k) == num * 10 + k

\* Comment counts an issue of the source may have: none, one, several pages' worth.
CommentCounts == {0, 1, MaxComments}

VARIABLES
    numIssues,      \* source: open issues are numbered 1..numIssues
    commentCount,   \* source: comment count of each issue
    exitCode,       \* Running, 0 (main returned) or 1 (os.Exit(1))
    exitBy,         \* who called os.Exit(1): 0 = main, i = issue unit i
    faults,         \* failed environment calls so far
    failAt,         \* number of ListByRepo calls made when the first call failed
    mainPc,         \* main's position
    optPage,        \* main: opt.ListOptions.Page
    issues,         \* main: issues of the current page
    respNext,       \* main: resp.NextPage
    issueVar,       \* writeIssues: index the range variable `issue` points at
    gErr,           \* writeIssues: g.err (set once)
    gFail,          \* history: errors returned by issue units, in order
    wiRet,          \* main: value returned by writeIssues
    upc,            \* issue unit -> position
    copt,           \* issue unit -> opt.ListOptions.Page of its comment list
    cnext,          \* issue unit -> resp.NextPage of its comment list
    comments,       \* issue unit -> comments of the current comment page
    cIdx,           \* issue unit -> comments launched so far by writeComments
    cpc,            \* issue unit -> comment unit -> position
    cErr,           \* issue unit -> g.err of writeComments (set once)
    cFail,          \* history: issue unit -> errors of its comment units, in order
    wcRet,          \* issue unit -> value returned by writeComments
    live,           \* goroutines started by g.Go and not ended: [0] issue units,
                    \* [i] comment units of issue unit i
    dirs,           \* file system: directories
    files,          \* file system: path -> content
    messages,       \* debug.messages
    stderr,         \* what Fatalf printed to os.Stderr
    listCalls,      \* history: pages requested by ListByRepo
    commentCalls,   \* history: issue number -> pages requested by ListComments
    fetched,        \* history: issue records returned by ListByRepo
    attempted,      \* history: issue numbers a goroutine was started for
    mu,             \* debug.mu: 0 unlocked, else the goroutine holding it
    lpc,            \* logging goroutine -> position inside the logger
    ltmp,           \* logging goroutine -> d.messages as read by its append
    lcalls,         \* logging goroutine -> Printf calls that have returned
    lfatal          \* logging goroutine -> its current call is Fatalf

srcVars == <<numIssues, commentCount>>
procVars == <<exitCode, exitBy, faults, failAt>>
mainVars == <<mainPc, optPage, issues, respNext, issueVar, gErr, gFail, wiRet>>
unitVars == <<upc, copt, cnext, comments, cIdx, cpc, cErr, cFail, wcRet, live>>
fsVars == <<dirs, files>>
logVars == <<messages, stderr>>
histVars == <<listCalls, commentCalls, fetched, attempted>>
lockVars == <<mu, lpc, ltmp, lcalls, lfatal>>
vars == <<srcVars, procVars, mainVars, unitVars, fsVars, logVars, histVars, lockVars>>

\* ---------------------------------------------------------------- records
IssueRec(n) == [Number |-> n, Comments |-> commentCount[n]]
CommentRec(id) == [ID |-> id]

\* json.Marshal and its inverse on the two record types.
MarshalIssue(r) == <<"number", r.Number, "comments", r.Comments>>
MarshalComment(r) == <<"id", r.ID>>
BadRecord == [Number |-> -1, Comments |-> -1]
UnmarshalIssue(b) ==
    IF Len(b) = 4 THEN [Number |-> b[2], Comments |-> b[4]] ELSE BadRecord
UnmarshalComment(b) == IF Len(b) = 2 THEN [ID |-> b[2]] ELSE [ID |-> -1]

\* issuemirror.Root's path mapping.
IssueDir(num) == <<"issues", num>>
IssueJSONFile(num) == <<"issues", num, "issue.json">>
IssueCommentsDir(num) == <<"issues", num, "comments">>
IssueCommentFile(num, id) == <<"issues", num, "comments", id>>

WriteTo(fs, path, content) ==
    [p \in DOMAIN fs \cup {path} |-> IF p = path THEN content ELSE fs[p]]

\* Issue units of a batch, and comment units of a comment batch, by position.
UnitIds == 1..PageLen(PerPage)

\* Goroutines that call the logger.
Loggers == 1..NumLoggers

\* ---------------------------------------------------------------- Init
Init ==
    /\ numIssues \in 1..NumIssues
    /\ commentCount \in [1..NumIssues -> CommentCounts]
    /\ \A n \in 1..NumIssues : n > numIssues => commentCount[n] = 0
    /\ exitCode = Running
    /\ exitBy = 0
    /\ faults = 0
    /\ failAt = 0
    /\ mainPc = "open"
    /\ optPage = 0
    /\ issues = <<>>
    /\ respNext = 0
    /\ issueVar = 0
    /\ gErr = Nil
    /\ gFail = <<>>
    /\ wiRet = Nil
    /\ upc = [i \in UnitIds |-> "idle"]
    /\ copt = [i \in UnitIds |-> 0]
    /\ cnext = [i \in UnitIds |-> 0]
    /\ comments = [i \in UnitIds |-> <<>>]
    /\ cIdx = [i \in UnitIds |-> 0]
    /\ cpc = [i \in UnitIds |-> [k \in UnitIds |-> "idle"]]
    /\ cErr = [i \in UnitIds |-> Nil]
    /\ cFail = [i \in UnitIds |-> <<>>]
    /\ wcRet = [i \in UnitIds |-> Nil]
    /\ live = [i \in {0} \cup UnitIds |-> 0]
    /\ dirs = {}
    /\ files = <<>>
    /\ messages = <<>>
    /\ stderr = <<>>
    /\ listCalls = <<>>
    /\ commentCalls = [n \in 1..NumIssues |-> <<>>]
    /\ fetched = {}
    /\ attempted = {}
    /\ mu = 0
    /\ lpc = [c \in Loggers |-> "idle"]
    /\ ltmp = [c \in Loggers |-> <<>>]
    /\ lcalls = [c \in Loggers |-> 0]
    /\ lfatal = [c \in Loggers |-> FALSE]

\* ---------------------------------------------------------------- helpers
\* debugLogger.Printf: append under the mutex.
Printf(msg) == messages' = Append(messages, msg)

\* An environment call fails: calls is the number of ListByRepo calls made so far.
Fault(calls) ==
    /\ faults < MaxFaults
    /\ faults' = faults + 1
    /\ failAt' = IF faults = 0 THEN calls ELSE failAt

NoFault == UNCHANGED <<faults, failAt>>

\* Mutant: every failing unit overwrites g.err (no errOnce).
ErrLast(cur, err) == err

\* errgroup.Group.Go: g.errOnce.Do(func() { g.err = err }).
ErrOnce(cur, err) == IF cur = Nil THEN err ELSE cur

\* ---------------------------------------------------------------- main
\* jekyllissues.Open(), and debug.Fatalln on failure.
MainOpen ==
    /\ exitCode = Running
    /\ mainPc = "open"
    /\ \/ /\ NoFault
          /\ dirs' = dirs \cup {<<"issues">>}
          /\ mainPc' = "list"
          /\ UNCHANGED messages
       \/ /\ Fault(0)
          /\ Printf(<<"error opening issue cache folder", 0, <<"open", 0>>>>)
          /\ mainPc' = "fataldump"
          /\ UNCHANGED dirs
    /\ UNCHANGED <<srcVars, lockVars, exitCode, exitBy, optPage, issues, respNext, issueVar,
                   gErr, gFail, wiRet, unitVars, files, stderr, histVars>>

\* client.Issues.ListByRepo; on success writeIssues starts: a fresh group and the
\* "processing %d issues" message.
MainListByRepo ==
    /\ exitCode = Running
    /\ mainPc = "list"
    /\ listCalls' = Append(listCalls, optPage)
    /\ \/ /\ NoFault
          /\ LET items == PageItems(numIssues, optPage, PerPage)
             IN  /\ issues' = [k \in DOMAIN items |-> IssueRec(items[k])]
                 /\ fetched' = fetched \cup {IssueRec(items[k]) : k \in DOMAIN items}
                 /\ messages' = messages \o <<<<"client.Issues.ListByRepo", optPage, Nil>>,
                                               <<"processing issues", Len(items), Nil>>>>
          /\ respNext' = NextPageOf(numIssues, optPage, PerPage)
          /\ issueVar' = 0
          /\ gErr' = Nil
          /\ gFail' = <<>>
          /\ upc' = [i \in UnitIds |-> "idle"]
          /\ mainPc' = "launch"
       \/ /\ Fault(Len(listCalls) + 1)
          /\ messages' = messages \o <<<<"client.Issues.ListByRepo", optPage, Nil>>,
                                        <<"listing issues; page", optPage, <<"list", optPage>>>>>>
          /\ mainPc' = "fataldump"
          /\ UNCHANGED <<issues, fetched, respNext, issueVar, gErr, gFail, upc>>
    /\ UNCHANGED <<srcVars, lockVars, exitCode, exitBy, optPage, wiRet, copt, cnext, comments,
                   cIdx, cpc, cErr, cFail, wcRet, live, fsVars, stderr, commentCalls,
                   attempted>>

\* writeIssues' range loop: one iteration sets `issue` and starts the goroutine.
WriteIssuesLaunch ==
    /\ exitCode = Running
    /\ mainPc = "launch"
    /\ issueVar < Len(issues)
    /\ issueVar' = issueVar + 1
    /\ upc' = [upc EXCEPT ![issueVar + 1] = "start"]
    /\ live' = [live EXCEPT ![0] = @ + 1]
    /\ attempted' = attempted \cup {issues[issueVar + 1].Number}
    /\ UNCHANGED <<srcVars, lockVars, procVars, mainPc, optPage, issues, respNext, gErr, gFail,
                   wiRet, copt, cnext, comments, cIdx, cpc, cErr, cFail, wcRet,
                   fsVars, logVars, listCalls, commentCalls, fetched>>

\* Mutant: a unit that returns an error never reports done, so the join waits on.
IssuesJoinedUnlessFailed ==
    /\ \A i \in 1..Len(issues) : upc[i] = "returned"
    /\ gErr = Nil

\* Mutant: the join lets go as soon as one issue unit has returned.
IssuesJoinedAny == \E i \in 1..Len(issues) : upc[i] = "returned"

\* g.wg.Wait() of writeIssues: every started issue unit has returned.
IssuesJoined == \A i \in 1..Len(issues) : upc[i] = "returned"

\* Mutant: writeIssues waits and then returns nil.
WriteIssuesResultNil == Nil

\* What g.Wait() hands back to writeIssues' caller: g.err.
WriteIssuesResult == gErr

\* return g.Wait()
WriteIssuesWait ==
    /\ exitCode = Running
    /\ mainPc = "launch"
    /\ issueVar = Len(issues)
    /\ IssuesJoined
    /\ wiRet' = WriteIssuesResult
    /\ mainPc' = "written"
    /\ UNCHANGED <<srcVars, lockVars, procVars, optPage, issues, respNext, issueVar, gErr, gFail,
                   unitVars, fsVars, logVars, histVars>>

\* Mutant: the cursor is stepped by one instead of taking resp.NextPage.
AdvanceByOne(page, next) == page + 1

\* opt.ListOptions.Page = resp.NextPage
Advance(page, next) == next

\* main after writeIssues: Fatalln on error, else break on the last page or advance.
MainAfterWriteIssues ==
    /\ exitCode = Running
    /\ mainPc = "written"
    /\ \/ /\ wiRet # Nil
          /\ Printf(<<"writing issues; page", optPage, wiRet>>)
          /\ mainPc' = "fataldump"
          /\ UNCHANGED optPage
       \/ /\ wiRet = Nil
          /\ respNext = 0
          /\ Printf(<<"no more pages", 0, Nil>>)
          /\ mainPc' = "return"
          /\ UNCHANGED optPage
       \/ /\ wiRet = Nil
          /\ respNext # 0
          /\ optPage' = Advance(optPage, respNext)
          /\ mainPc' = "list"
          /\ UNCHANGED messages
    /\ UNCHANGED <<srcVars, lockVars, procVars, issues, respNext, issueVar, gErr, gFail, wiRet,
                   unitVars, fsVars, stderr, histVars>>

\* main returns: the process exits 0.
MainReturn ==
    /\ exitCode = Running
    /\ mainPc = "return"
    /\ exitCode' = 0
    /\ mainPc' = "exited"
    /\ UNCHANGED <<srcVars, lockVars, exitBy, faults, failAt, optPage, issues, respNext, issueVar,
                   gErr, gFail, wiRet, unitVars, fsVars, logVars, histVars>>

\* ---------------------------------------------------------------- issue units
\* Mutant: the goroutine marshals the shared range variable instead of its copy.
IssueValShared(i) == issues[issueVar]

\* The goroutine's copies issueVal and num of its own issue.
IssueVal(i) == issues[i]

\* Mutant: the goroutine takes the issue number from the shared range variable.
NumShared(i) == issues[issueVar].Number

\* num := *issueVal.Number
Num(i) == issues[i].Number

\* filepath.Dir, and the directories os.MkdirAll(path) leaves in place.
Dir(path) == SubSeq(path, 1, Len(path) - 1)
MkdirAll(path) == {SubSeq(path, 1, k) : k \in 1..Len(path)}

Goto(i, pc) == upc' = [upc EXCEPT ![i] = pc]

\* The goroutine of issue unit i returns err (Nil: no error) to its group.
Return(i, err) ==
    /\ upc' = [upc EXCEPT ![i] = "returned"]
    /\ gErr' = IF err = Nil THEN gErr ELSE ErrOnce(gErr, err)
    /\ gFail' = IF err = Nil THEN gFail ELSE Append(gFail, err)
    /\ copt' = [copt EXCEPT ![i] = 0]
    /\ cnext' = [cnext EXCEPT ![i] = 0]
    /\ comments' = [comments EXCEPT ![i] = <<>>]
    /\ cIdx' = [cIdx EXCEPT ![i] = 0]
    /\ cpc' = [cpc EXCEPT ![i] = [k \in UnitIds |-> "idle"]]
    /\ cErr' = [cErr EXCEPT ![i] = Nil]
    /\ cFail' = [cFail EXCEPT ![i] = <<>>]
    /\ wcRet' = [wcRet EXCEPT ![i] = Nil]
    /\ live' = [live EXCEPT ![0] = @ - 1]

unitLocals == <<copt, cnext, comments, cIdx, cpc, cErr, cFail, wcRet, live>>
mainLocals == <<mainPc, optPage, issues, respNext, issueVar, wiRet>>

\* "started processing", then os.MkdirAll(filepath.Dir(issueFile)).
UnitMkdirIssue(i) ==
    /\ exitCode = Running
    /\ upc[i] = "start"
    /\ Printf(<<"started processing", Num(i), Nil>>)
    /\ \/ /\ NoFault
          /\ dirs' = dirs \cup MkdirAll(Dir(IssueJSONFile(Num(i))))
          /\ Goto(i, "create")
          /\ UNCHANGED <<gErr, gFail, unitLocals>>
       \/ /\ Fault(Len(listCalls))
          /\ Return(i, <<"mkdir", Num(i)>>)
          /\ UNCHANGED dirs
    /\ UNCHANGED <<srcVars, lockVars, exitCode, exitBy, mainLocals, files, stderr, histVars>>

\* json.Marshal(issueVal), then ioutil.WriteFile creates or truncates the file.
UnitCreateIssueFile(i) ==
    /\ exitCode = Running
    /\ upc[i] = "create"
    /\ \/ /\ NoFault
          /\ files' = WriteTo(files, IssueJSONFile(Num(i)), <<>>)
          /\ Goto(i, "write")
          /\ UNCHANGED <<gErr, gFail, unitLocals>>
       \/ /\ Fault(Len(listCalls))
          /\ \E op \in {"marshal", "write"} : Return(i, <<op, Num(i)>>)
          /\ UNCHANGED files
    /\ UNCHANGED <<srcVars, lockVars, exitCode, exitBy, mainLocals, dirs, logVars, histVars>>

\* Mutant: the unit goes on to the comments with the issue file still empty.
UnitWriteIssueFileLate(i) ==
    /\ exitCode = Running
    /\ upc[i] = "write"
    /\ Goto(i, "check")
    /\ UNCHANGED <<srcVars, lockVars, procVars, mainLocals, gErr, gFail, unitLocals, fsVars,
                   logVars, histVars>>

\* ioutil.WriteFile writes the marshalled issue and closes the file.
UnitWriteIssueFile(i) ==
    /\ exitCode = Running
    /\ upc[i] = "write"
    /\ \/ /\ NoFault
          /\ files' = WriteTo(files, IssueJSONFile(Num(i)), MarshalIssue(IssueVal(i)))
          /\ Goto(i, "check")
          /\ UNCHANGED <<gErr, gFail, unitLocals>>
       \/ /\ Fault(Len(listCalls))
          /\ Return(i, <<"write", Num(i)>>)
          /\ UNCHANGED files
    /\ UNCHANGED <<srcVars, lockVars, exitCode, exitBy, mainLocals, dirs, logVars, histVars>>

\* Positions the shared range variable `issue` can be seen at by unit i: the
\* goroutine reads it without synchronisation while the loop goes on.
IssueSeenBy(i) == i..issueVar

\* if *issue.Comments <= 0 { return nil }
UnitCheckComments(i) ==
    /\ exitCode = Running
    /\ upc[i] = "check"
    /\ \E k \in IssueSeenBy(i) :
          IF issues[k].Comments <= 0
          THEN Return(i, Nil)
          ELSE /\ Goto(i, "mkcomments")
               /\ UNCHANGED <<gErr, gFail, unitLocals>>
    /\ UNCHANGED <<srcVars, lockVars, procVars, mainLocals, fsVars, logVars, histVars>>

\* os.MkdirAll(commentsDir), then opt with Page 0.
UnitMkdirComments(i) ==
    /\ exitCode = Running
    /\ upc[i] = "mkcomments"
    /\ \/ /\ NoFault
          /\ dirs' = dirs \cup MkdirAll(IssueCommentsDir(Num(i)))
          /\ Goto(i, "listc")
          /\ copt' = [copt EXCEPT ![i] = 0]
          /\ UNCHANGED <<gErr, gFail, cnext, comments, cIdx, cpc, cErr, cFail, wcRet,
                         live>>
       \/ /\ Fault(Len(listCalls))
          /\ Return(i, <<"mkdir comments", Num(i)>>)
          /\ UNCHANGED dirs
    /\ UNCHANGED <<srcVars, lockVars, exitCode, exitBy, mainLocals, files, logVars, histVars>>

\* client.Issues.ListComments; on success writeComments starts: a fresh group and
\* the "processing %d comments" message. On failure debug.Fatalf's Printf.
UnitListComments(i) ==
    /\ exitCode = Running
    /\ upc[i] = "listc"
    /\ commentCalls' = [commentCalls EXCEPT ![Num(i)] = Append(@, copt[i])]
    /\ \/ /\ NoFault
          /\ LET items == PageItems(commentCount[Num(i)], copt[i], PerPage)
             IN  /\ comments' = [comments EXCEPT ![i] =
                        [k \in DOMAIN items |-> CommentRec(CommentID(Num(i), items[k]))]]
                 /\ messages' = messages \o
                        <<<<"client.Issues.ListComments", Num(i), <<copt[i]>>>>,
                          <<"processing comments for issue", Num(i), <<Len(items)>>>>>>
          /\ cnext' = [cnext EXCEPT ![i] =
                            NextPageOf(commentCount[Num(i)], copt[i], PerPage)]
          /\ cIdx' = [cIdx EXCEPT ![i] = 0]
          /\ cpc' = [cpc EXCEPT ![i] = [k \in UnitIds |-> "idle"]]
          /\ cErr' = [cErr EXCEPT ![i] = Nil]
          /\ cFail' = [cFail EXCEPT ![i] = <<>>]
          /\ Goto(i, "wclaunch")
       \/ /\ Fault(Len(listCalls))
          /\ messages' = messages \o
                 <<<<"client.Issues.ListComments", Num(i), <<copt[i]>>>>,
                   <<"listing comments for issue", Num(i), <<"list comments", copt[i]>>>>>>
          /\ Goto(i, "fataldump")
          /\ UNCHANGED <<comments, cnext, cIdx, cpc, cErr, cFail>>
    /\ UNCHANGED <<srcVars, lockVars, exitCode, exitBy, mainLocals, gErr, gFail, copt, wcRet,
                   live, fsVars, stderr, listCalls, fetched, attempted>>

\* writeComments' range loop: one iteration copies the comment and starts its
\* goroutine.
WriteCommentsLaunch(i) ==
    /\ exitCode = Running
    /\ upc[i] = "wclaunch"
    /\ cIdx[i] < Len(comments[i])
    /\ cIdx' = [cIdx EXCEPT ![i] = @ + 1]
    /\ cpc' = [cpc EXCEPT ![i][cIdx[i] + 1] = "run"]
    /\ live' = [live EXCEPT ![i] = @ + 1]
    /\ UNCHANGED <<srcVars, lockVars, procVars, mainVars, upc, copt, cnext, comments, cErr, cFail,
                   wcRet, fsVars, logVars, histVars>>

\* The goroutine of comment unit k of issue unit i ends with err.
CommentDone(i, k, err) ==
    /\ cpc' = [cpc EXCEPT ![i][k] = "done"]
    /\ cErr' = [cErr EXCEPT ![i] = IF err = Nil THEN @ ELSE ErrOnce(@, err)]
    /\ cFail' = [cFail EXCEPT ![i] = IF err = Nil THEN @ ELSE Append(@, err)]
    /\ live' = [live EXCEPT ![i] = @ - 1]

CommentVal(i, k) == comments[i][k]
CommentFile(i, k) == IssueCommentFile(Num(i), CommentVal(i, k).ID)

\* json.Marshal(commentVal), then ioutil.WriteFile creates or truncates the file.
CommentCreateFile(i, k) ==
    /\ exitCode = Running
    /\ cpc[i][k] = "run"
    /\ \/ /\ NoFault
          /\ files' = WriteTo(files, CommentFile(i, k), <<>>)
          /\ cpc' = [cpc EXCEPT ![i][k] = "write"]
          /\ UNCHANGED <<cErr, cFail, live>>
       \/ /\ Fault(Len(listCalls))
          /\ \E op \in {"marshal", "write"} :
                CommentDone(i, k, <<op, CommentVal(i, k).ID>>)
          /\ UNCHANGED files
    /\ UNCHANGED <<srcVars, lockVars, exitCode, exitBy, mainVars, upc, copt, cnext, comments, cIdx,
                   wcRet, dirs, logVars, histVars>>

\* ioutil.WriteFile writes the marshalled comment and closes the file.
CommentWriteFile(i, k) ==
    /\ exitCode = Running
    /\ cpc[i][k] = "write"
    /\ \/ /\ NoFault
          /\ files' = WriteTo(files, CommentFile(i, k), MarshalComment(CommentVal(i, k)))
          /\ CommentDone(i, k, Nil)
       \/ /\ Fault(Len(listCalls))
          /\ CommentDone(i, k, <<"write", CommentVal(i, k).ID>>)
          /\ UNCHANGED files
    /\ UNCHANGED <<srcVars, lockVars, exitCode, exitBy, mainVars, upc, copt, cnext, comments, cIdx,
                   wcRet, dirs, logVars, histVars>>

\* Mutant: writeComments returns without waiting for its units.
CommentsJoinedNoWait(i) == TRUE

\* Mutant: the join lets go as soon as one comment unit has ended.
CommentsJoinedAny(i) == \E k \in 1..Len(comments[i]) : cpc[i][k] = "done"

\* g.wg.Wait() of writeComments: every started comment unit has ended.
CommentsJoined(i) == \A k \in 1..Len(comments[i]) : cpc[i][k] = "done"

\* return g.Wait()
WriteCommentsWait(i) ==
    /\ exitCode = Running
    /\ upc[i] = "wclaunch"
    /\ cIdx[i] = Len(comments[i])
    /\ CommentsJoined(i)
    /\ wcRet' = [wcRet EXCEPT ![i] = cErr[i]]
    /\ Goto(i, "wcret")
    /\ UNCHANGED <<srcVars, lockVars, procVars, mainVars, copt, cnext, comments, cIdx, cpc, cErr,
                   cFail, live, fsVars, logVars, histVars>>

\* Mutant: the error of writeComments is dropped.
CommentsFailedNever(i) == FALSE

\* err != nil after writeComments.
CommentsFailed(i) == wcRet[i] # Nil

\* The comment loop after writeComments: Fatalf on error, else break on the last
\* page ("finished processing", return nil) or advance.
UnitAfterWriteComments(i) ==
    /\ exitCode = Running
    /\ upc[i] = "wcret"
    /\ \/ /\ CommentsFailed(i)
          /\ Printf(<<"writing comments for issue", Num(i), wcRet[i]>>)
          /\ Goto(i, "fataldump")
          /\ UNCHANGED <<gErr, gFail, unitLocals>>
       \/ /\ ~CommentsFailed(i)
          /\ cnext[i] = 0
          /\ Printf(<<"finished processing", Num(i), Nil>>)
          /\ Return(i, Nil)
       \/ /\ ~CommentsFailed(i)
          /\ cnext[i] # 0
          /\ copt' = [copt EXCEPT ![i] = Advance(copt[i], cnext[i])]
          /\ Goto(i, "listc")
          /\ UNCHANGED <<gErr, gFail, cnext, comments, cIdx, cpc, cErr, cFail, wcRet,
                         live, messages>>
    /\ UNCHANGED <<srcVars, lockVars, procVars, mainLocals, fsVars, stderr, histVars>>

\* Fatalf in an issue unit, after its Printf: fmt.Fprintln(os.Stderr, d.String()).
UnitFatalDump(i) ==
    /\ exitCode = Running
    /\ upc[i] = "fataldump"
    /\ stderr' = messages
    /\ Goto(i, "fatalexit")
    /\ UNCHANGED <<srcVars, lockVars, procVars, mainVars, unitLocals, fsVars, messages, histVars>>

\* Fatalf in an issue unit: os.Exit(1) ends the process, whatever else is running.
UnitFatalExit(i) ==
    /\ exitCode = Running
    /\ upc[i] = "fatalexit"
    /\ exitCode' = 1
    /\ exitBy' = i
    /\ Goto(i, "exited")
    /\ UNCHANGED <<srcVars, lockVars, faults, failAt, mainVars, unitLocals, fsVars, logVars,
                   histVars>>

\* Fatalf in main, after its Printf: fmt.Fprintln(os.Stderr, d.String()).
MainFatalDump ==
    /\ exitCode = Running
    /\ mainPc = "fataldump"
    /\ stderr' = messages
    /\ mainPc' = "fatalexit"
    /\ UNCHANGED <<srcVars, lockVars, procVars, optPage, issues, respNext, issueVar, gErr, gFail,
                   wiRet, unitVars, fsVars, messages, histVars>>

\* Fatalf in main: os.Exit(1).
MainFatalExit ==
    /\ exitCode = Running
    /\ mainPc = "fatalexit"
    /\ exitCode' = 1
    /\ exitBy' = 0
    /\ mainPc' = "exited"
    /\ UNCHANGED <<srcVars, lockVars, faults, failAt, optPage, issues, respNext, issueVar,
                   gErr, gFail, wiRet, unitVars, fsVars, logVars, histVars>>

\* ---------------------------------------------------------------- specification
Next ==
    \/ MainOpen
    \/ MainListByRepo
    \/ WriteIssuesLaunch
    \/ WriteIssuesWait
    \/ MainAfterWriteIssues
    \/ MainReturn
    \/ MainFatalDump
    \/ MainFatalExit
    \/ \E i \in UnitIds :
          \/ UnitMkdirIssue(i)
          \/ UnitCreateIssueFile(i)
          \/ UnitWriteIssueFile(i)
          \/ UnitCheckComments(i)
          \/ UnitMkdirComments(i)
          \/ UnitListComments(i)
          \/ WriteCommentsLaunch(i)
          \/ WriteCommentsWait(i)
          \/ UnitAfterWriteComments(i)
          \/ UnitFatalDump(i)
          \/ UnitFatalExit(i)
          \/ \E k \in UnitIds :
                \/ CommentCreateFile(i, k)
                \/ CommentWriteFile(i, k)

Spec == Init /\ [][Next]_vars

\* ---------------------------------------------------------------- debugLogger
\* The logger step by step, for goroutines that call it concurrently: Printf
\* locks d.mu, appends (reads d.messages, stores the longer slice) and unlocks;
\* Fatalf is Printf, then String() and Fprintln, then os.Exit(1).
mainFrame == <<srcVars, faults, failAt, mainVars, unitVars, fsVars, histVars>>

\* The message of goroutine c's next log call.
LogMsg(c, n) == <<"log", c, <<n>>>>

\* A goroutine calls debug.Printf (or Println), or debug.Fatalf (or Fatalln).
LogCall(c) ==
    /\ exitCode = Running
    /\ lpc[c] = "idle"
    /\ lcalls[c] < MaxLogCalls
    /\ \E f \in BOOLEAN : lfatal' = [lfatal EXCEPT ![c] = f]
    /\ lpc' = [lpc EXCEPT ![c] = "lock"]
    /\ UNCHANGED <<mainFrame, exitCode, exitBy, logVars, mu, ltmp, lcalls>>

\* Mutant: Printf appends without taking the mutex.
MuIgnored == TRUE

\* d.mu.Lock() can return: the mutex is free.
MuFree == mu = 0

\* Printf: d.mu.Lock()
LogLock(c) ==
    /\ exitCode = Running
    /\ lpc[c] = "lock"
    /\ MuFree
    /\ mu' = c
    /\ lpc' = [lpc EXCEPT ![c] = "locked"]
    /\ UNCHANGED <<mainFrame, exitCode, exitBy, logVars, ltmp, lcalls, lfatal>>

\* Printf: append reads d.messages.
LogRead(c) ==
    /\ exitCode = Running
    /\ lpc[c] = "locked"
    /\ ltmp' = [ltmp EXCEPT ![c] = messages]
    /\ lpc' = [lpc EXCEPT ![c] = "append"]
    /\ UNCHANGED <<mainFrame, exitCode, exitBy, logVars, mu, lcalls, lfatal>>

\* Printf: d.messages = append(...) stores the slice with the message added.
LogStore(c) ==
    /\ exitCode = Running
    /\ lpc[c] = "append"
    /\ messages' = Append(ltmp[c], LogMsg(c, lcalls[c] + 1))
    /\ lpc' = [lpc EXCEPT ![c] = "unlock"]
    /\ UNCHANGED <<mainFrame, exitCode, exitBy, stderr, mu, ltmp, lcalls, lfatal>>

\* Printf: the deferred d.mu.Unlock(), and Printf returns; Fatalf goes on.
LogUnlock(c) ==
    /\ exitCode = Running
    /\ lpc[c] = "unlock"
    /\ mu' = 0
    /\ lcalls' = [lcalls EXCEPT ![c] = @ + 1]
    /\ lpc' = [lpc EXCEPT ![c] = IF lfatal[c] THEN "string" ELSE "idle"]
    /\ UNCHANGED <<mainFrame, exitCode, exitBy, logVars, ltmp, lfatal>>

\* What a read of d.messages without the mutex can yield for goroutine c: the
\* slice as it is, or, while another goroutine is between the read and the
\* store of its append, the longer slice with that element not yet written.
RacyRead(c) ==
    {messages} \cup
    {Append(messages, <<"", d, <<>>>>) : d \in {x \in Loggers \ {c} : lpc[x] = "append"}}

\* Fatalf: fmt.Fprintln(os.Stderr, d.String()); String() takes no lock.
LogString(c) ==
    /\ exitCode = Running
    /\ lpc[c] = "string"
    /\ stderr' \in RacyRead(c)
    /\ lpc' = [lpc EXCEPT ![c] = "exit"]
    /\ UNCHANGED <<mainFrame, exitCode, exitBy, messages, mu, ltmp, lcalls, lfatal>>

\* Fatalf: os.Exit(1)
LogExit(c) ==
    /\ exitCode = Running
    /\ lpc[c] = "exit"
    /\ exitCode' = 1
    /\ exitBy' = c
    /\ lpc' = [lpc EXCEPT ![c] = "exited"]
    /\ UNCHANGED <<mainFrame, logVars, mu, ltmp, lcalls, lfatal>>

LogNext ==
    \E c \in Loggers :
        \/ LogCall(c)
        \/ LogLock(c)
        \/ LogRead(c)
        \/ LogStore(c)
        \/ LogUnlock(c)
        \/ LogString(c)
        \/ LogExit(c)

\* The logger alone, called by NumLoggers goroutines, with the run not started.
LogInit == Init /\ numIssues = 1 /\ \A n \in 1..NumIssues : commentCount[n] = 0

LogSpec == LogInit /\ [][LogNext]_vars

\* ---------------------------------------------------------------- properties
\* Comment files present under the comments directory of issue num, by comment id.
CommentFilesOf(num) ==
    {id \in {CommentID(num, k) : k \in 0..MaxComments} :
        IssueCommentFile(num, id) \in DOMAIN files}

\* No issue unit and no comment unit is running.
Quiet ==
    \A i \in UnitIds :
        /\ upc[i] \in {"idle", "returned"}
        /\ \A k \in UnitIds : cpc[i][k] \in {"idle", "done"}

\* C1: whenever main is about to call ListByRepo, every unit of work launched for
\* the page before it has finished: each issue of that page has a unit that has
\* returned, and no comment unit of any of them is still running.
C1_PagesInSequence ==
    mainPc = "list" =>
        /\ Quiet
        /\ \A i \in 1..Len(issues) : upc[i] = "returned"

\* C1 witness: main is about to list the second page after a first page whose
\* issues had comment files written.
C1_Witness ==
    /\ mainPc = "list"
    /\ Len(listCalls) = 1
    /\ Len(issues) = PageLen(PerPage)
    /\ \E n \in 1..NumIssues : CommentFilesOf(n) # {}

\* The first of the errors in order, Nil if there is none.
FirstOf(errs) == IF errs = <<>> THEN Nil ELSE Head(errs)

\* C2: when writeComments returns, every comment unit it launched has ended and
\* it returns the error of the unit that failed first (nil if and only if none
\* failed); the same holds of writeIssues for the issue units, which have all
\* returned when it returns.
C2_FirstErrorWins ==
    /\ \A i \in UnitIds :
          upc[i] = "wcret" =>
              /\ \A k \in 1..Len(comments[i]) : cpc[i][k] = "done"
              /\ wcRet[i] = FirstOf(cFail[i])
    /\ mainPc = "written" =>
          /\ \A i \in 1..Len(issues) : upc[i] = "returned"
          /\ wiRet = FirstOf(gFail)

\* C2 witness: writeComments has returned after two of its units failed, with
\* two different errors.
C2_Witness ==
    \E i \in UnitIds :
        /\ upc[i] = "wcret"
        /\ Len(cFail[i]) = 2
        /\ cFail[i][1] # cFail[i][2]

\* C3: once a call has failed, no further ListByRepo call is made, and the run
\* does not end with exit code 0.
C3_NoPageAfterFailure ==
    faults > 0 =>
        /\ Len(listCalls) = failAt
        /\ exitCode # 0

\* C3 witness: the run ended with exit code 1 through main, after an issue unit
\* of a page that had a next page returned an error.
C3_Witness ==
    /\ exitCode = 1
    /\ exitBy = 0
    /\ gFail # <<>>
    /\ respNext # 0

\* C4: when the process exits with code 1, every unit of the batch other than
\* the one that called os.Exit has run to completion.
C4_InFlightComplete ==
    exitCode = 1 =>
        \A i \in UnitIds \ {exitBy} :
            /\ upc[i] \in {"idle", "returned"}
            /\ \A k \in UnitIds : cpc[i][k] \in {"idle", "done"}

\* C5: a run that ends with exit code 0 made exactly as many ListByRepo calls as
\* the issue list has pages, and for every issue with comments exactly as many
\* ListComments calls as its comment list has pages.
C5_ExactlyKFetches ==
    exitCode = 0 =>
        /\ Len(listCalls) = NumPages(numIssues, PerPage)
        /\ \A n \in 1..numIssues :
              commentCount[n] > 0 =>
                  Len(commentCalls[n]) = NumPages(commentCount[n], PerPage)

\* C6: after a run that ends with exit code 0, every fetched issue with comment
\* count C > 0 has exactly C comment files, one per comment id of the issue.
C6_AllCommentFiles ==
    exitCode = 0 =>
        \A r \in fetched :
            r.Comments > 0 =>
                /\ CommentFilesOf(r.Number) =
                      {CommentID(r.Number, k) : k \in 1..r.Comments}
                /\ Cardinality(CommentFilesOf(r.Number)) = r.Comments

\* C7: for a fetched issue with comment count 0 the comments directory is never
\* created, ListComments is never called and no comment file is written.
C7_NoCommentsNoDir ==
    \A r \in fetched :
        r.Comments = 0 =>
            /\ IssueCommentsDir(r.Number) \notin dirs
            /\ commentCalls[r.Number] = <<>>
            /\ CommentFilesOf(r.Number) = {}

\* C8: after a run that ends with exit code 0, every fetched issue has a file at
\* its derived path, and unmarshalling the file's content yields the fetched
\* record.
C8_IssueFileRoundTrip ==
    exitCode = 0 =>
        \A r \in fetched :
            /\ IssueJSONFile(r.Number) \in DOMAIN files
            /\ UnmarshalIssue(files[IssueJSONFile(r.Number)]) = r

\* C8 witness: a successful run over two issue pages, all issues fetched.
C8_Witness ==
    /\ exitCode = 0
    /\ Len(listCalls) = 2
    /\ Cardinality(fetched) = NumIssues
    /\ \A n \in 1..NumIssues : IssueJSONFile(n) \in DOMAIN files

\* The end-to-end scenario at the model's scale: one issues page with issue 1
\* (no comments) and issue 2 (MaxComments comments on two comment pages).
Scenario ==
    /\ numIssues = 2
    /\ commentCount[1] = 0
    /\ commentCount[2] = MaxComments
    /\ NumPages(numIssues, PerPage) = 1
    /\ NumPages(MaxComments, PerPage) = 2

\* C9: in the scenario a run that ends with exit code 0 leaves both issue files,
\* all comment files of issue 2 and no comments directory for issue 1, after one
\* ListByRepo call, two ListComments calls for issue 2 and none for issue 1.
C9_EndToEnd ==
    (Scenario /\ exitCode = 0) =>
        /\ IssueJSONFile(1) \in DOMAIN files
        /\ IssueJSONFile(2) \in DOMAIN files
        /\ Cardinality(CommentFilesOf(2)) = MaxComments
        /\ IssueCommentsDir(1) \notin dirs
        /\ Len(listCalls) = 1
        /\ Len(commentCalls[2]) = 2
        /\ commentCalls[1] = <<>>

\* Messages written by Fatalf and Fatalln.
FatalTexts ==
    {"error opening issue cache folder", "listing issues; page", "writing issues; page",
     "listing comments for issue", "writing comments for issue"}

\* C10: exit code 0 only with the root opened, no failed call and the last
\* issues page reached; a run that ends otherwise has exit code 1, after a
\* failed call and with a fatal message among the lines printed to stderr.
C10_ExitStatus ==
    /\ exitCode = 0 =>
          /\ faults = 0
          /\ <<"issues">> \in dirs
          /\ listCalls # <<>>
          /\ respNext = 0
          /\ stderr = <<>>
    /\ exitCode = 1 =>
          /\ faults > 0
          /\ \E j \in 1..Len(stderr) : stderr[j][1] \in FatalTexts

\* C10 witness: an issue unit ended the process with exit code 1 after its
\* comment batch failed, with the diagnostic printed.
C10_Witness ==
    /\ exitCode = 1
    /\ exitBy > 0
    /\ wcRet[exitBy] # Nil
    /\ stderr # <<>>

\* Write units in flight with the file each is writing: issue units that have
\* started and not yet closed their issue file, comment units that have started
\* and not ended.
IssueWriters == {i \in UnitIds : upc[i] \in {"start", "create", "write"}}
CommentWriters ==
    {w \in UnitIds \X UnitIds :
        /\ upc[w[1]] = "wclaunch"
        /\ cpc[w[1]][w[2]] \in {"run", "write"}}

\* C11: no two write units in flight target the same path: issue units in flight
\* have distinct issue numbers, comment units in flight have distinct
\* (issue number, comment id) pairs, and so distinct files.
C11_DistinctPaths ==
    /\ \A i, j \in IssueWriters :
          i # j =>
              /\ Num(i) # Num(j)
              /\ IssueJSONFile(Num(i)) # IssueJSONFile(Num(j))
    /\ \A v, w \in CommentWriters :
          v # w =>
              /\ <<Num(v[1]), CommentVal(v[1], v[2]).ID>> #
                    <<Num(w[1]), CommentVal(w[1], w[2]).ID>>
              /\ CommentFile(v[1], v[2]) # CommentFile(w[1], w[2])

\* C11 witness: two issue units are writing comment files at the same time, two
\* comment units each, while both pages' worth of units is in flight.
C11_Witness ==
    /\ Cardinality(CommentWriters) = 2 * PageLen(PerPage)
    /\ \E v \in CommentWriters : cpc[v[1]][v[2]] = "write"

\* C12: when the process has ended, with either exit code, a goroutine had been
\* started for every issue of every fetched page.
C12_AllAttempted ==
    exitCode # Running => \A r \in fetched : r.Number \in attempted

\* Number of messages with the given text and number in a log.
CountMsg(log, text, n) ==
    Cardinality({j \in 1..Len(log) : log[j][1] = text /\ log[j][2] = n})

\* C13: after a run that ends with exit code 0 the log holds one "finished
\* processing" message for every fetched issue, and "no more pages" once, as
\* its last message.
C13_FinishedMessages ==
    exitCode = 0 =>
        /\ \A r \in fetched : CountMsg(messages, "finished processing", r.Number) = 1
        /\ CountMsg(messages, "no more pages", 0) = 1
        /\ messages[Len(messages)][1] = "no more pages"

RECURSIVE SumLive(_)
SumLive(S) ==
    IF S = {} THEN 0
    ELSE LET x == CHOOSE y \in S : TRUE IN live[x] + SumLive(S \ {x})

\* Goroutines started by g.Go and not ended, over all fan-outs.
TotalLive == SumLive(DOMAIN live)

\* C14 as stated: at every moment at most one page's worth of units is running.
C14_AtMostOnePage == TotalLive <= PageLen(PerPage)

\* C14 as amended: each fan-out alone has at most one page's worth of units
\* running: the issue units of the current issues page, and for each issue
\* unit the comment units of its current comment page; all fan-outs together
\* stay within one page's worth of issue units times one more than a page.
C14_PerFanOut ==
    /\ live[0] <= PageLen(PerPage)
    /\ \A i \in UnitIds : live[i] <= PageLen(PerPage)
    /\ TotalLive <= PageLen(PerPage) * (PageLen(PerPage) + 1)

\* C14 witness: a full page of issue units, each with a full page of comment
\* units running.
C14_Witness ==
    /\ live[0] = PageLen(PerPage)
    /\ TotalLive = PageLen(PerPage) * (PageLen(PerPage) + 1)

\* C15: a comment file exists only under a comments directory that exists, and
\* an issue unit is about to call ListComments only when none of its comment
\* units is running.
C15_CommentPagesInSequence ==
    /\ \A n \in 1..NumIssues :
          CommentFilesOf(n) # {} => IssueCommentsDir(n) \in dirs
    /\ \A i \in UnitIds :
          upc[i] = "listc" =>
              /\ live[i] = 0
              /\ \A k \in UnitIds : cpc[i][k] \in {"idle", "done"}

\* C15 witness: an issue unit is about to list its second comment page with the
\* files of its first comment page written.
C15_Witness ==
    \E i \in UnitIds :
        /\ upc[i] = "listc"
        /\ copt[i] # 0
        /\ Cardinality(CommentFilesOf(Num(i))) = PageLen(PerPage)

\* The pages a list of total items is asked for, call after call.
FollowsCursor(calls, total) ==
    \A j \in 1..Len(calls) :
        IF j = 1
        THEN calls[j] = 0
        ELSE /\ calls[j] # 0
             /\ calls[j] = NextPageOf(total, calls[j - 1], PerPage)

\* C17: with page size 100, every list starts at page 0 and each later call
\* asks for the next-page value the call before it on the same list returned:
\* the issue list, and the comment list of each issue on its own.
C17_Cursors ==
    /\ PerPage = 100
    /\ FollowsCursor(listCalls, numIssues)
    /\ \A n \in 1..NumIssues : FollowsCursor(commentCalls[n], commentCount[n])

\* C17 witness: the second issues page was asked for after two issues of the
\* first page each asked for their two comment pages.
C17_Witness ==
    /\ Len(listCalls) = 2
    /\ Len(commentCalls[1]) = 2
    /\ Len(commentCalls[2]) = 2

\* C19: if a comment file of an issue exists, or ListComments was called for
\* it, the issue's own file has been written in full.
C19_IssueFileFirst ==
    \A n \in 1..NumIssues :
        (CommentFilesOf(n) # {} \/ commentCalls[n] # <<>>) =>
            /\ IssueJSONFile(n) \in DOMAIN files
            /\ UnmarshalIssue(files[IssueJSONFile(n)]) = IssueRec(n)

\* C19 witness: a comment file of an issue is written while its unit is still
\* running.
C19_Witness ==
    \E i \in UnitIds :
        /\ upc[i] = "wclaunch"
        /\ \E k \in UnitIds : cpc[i][k] = "done"
        /\ CommentFilesOf(Num(i)) # {}

\* Scheduling: as long as some goroutine can take a step, one does.
FairSpec == Spec /\ WF_vars(Next)

\* C18: under fair scheduling every run ends, with exit code 0 or 1.
C18_Terminates == <>(exitCode \in {0, 1})

\* C18 witness: a run over two issues pages and two comment pages that ended
\* after every join had let go.
C18_Witness ==
    /\ exitCode = 0
    /\ Len(listCalls) = 2
    /\ \E n \in 1..NumIssues : Len(commentCalls[n]) = 2

\* Goroutines inside Printf's locked section.
InAppend == {c \in Loggers : lpc[c] \in {"locked", "append", "unlock"}}

\* Log calls whose message has been stored: the calls that returned, and the
\* call of a goroutine that is about to unlock.
Stored(c) == lcalls[c] + (IF lpc[c] = "unlock" THEN 1 ELSE 0)

RECURSIVE SumStored(_)
SumStored(S) ==
    IF S = {} THEN 0
    ELSE LET x == CHOOSE y \in S : TRUE IN Stored(x) + SumStored(S \ {x})

\* C16: at most one goroutine is inside the append at a time, and the buffer
\* holds exactly one entry for every log call whose append has been made: none
\* is lost and none is doubled.
C16_SerializedAppends ==
    /\ Cardinality(InAppend) <= 1
    /\ \A c \in InAppend : mu = c
    /\ Len(messages) = SumStored(Loggers)
    /\ \A c \in Loggers :
          \A n \in 1..Stored(c) :
              Cardinality({j \in 1..Len(messages) : messages[j] = LogMsg(c, n)}) = 1

\* C16 witness: one goroutine is inside the append while every other one waits
\* for the mutex, with messages of different goroutines already in the buffer.
C16_Witness ==
    /\ \E c \in Loggers :
          /\ lpc[c] = "append"
          /\ \A d \in Loggers \ {c} : lpc[d] = "lock"
    /\ \A c \in Loggers : lcalls[c] >= 1

\* C20: a goroutine that reads or writes d.messages holds d.mu, the read of
\* String() in Fatalf included, so no goroutine is in String() while another is
\* inside the append.
C20_DumpUnderMutex ==
    /\ \A c \in Loggers :
          lpc[c] \in {"locked", "append", "string"} => mu = c
    /\ \A c, d \in Loggers :
          (c # d /\ lpc[c] = "string") => lpc[d] \notin {"locked", "append"}
====
